---- MODULE Spec2Model ----
(***************************************************************************)
(* A model of libseccure.c (libecc): the reference-counted provider        *)
(* lifecycle (ecc_new_state / ecc_free_state), key-pair derivation, the    *)
(* ECIES encrypt/decrypt orchestration and the ECDSA sign/verify           *)
(* orchestration.  Pointers to structs are records with a `nil` flag or    *)
(* heap indices (0 is NULL); C strings are byte sequences read up to the   *)
(* first zero byte.                                                        *)
(***************************************************************************)
EXTENDS Integers, Sequences, FiniteSets, TLC

(***************************************************************************)
(* Bounds of the model.                                                    *)
(***************************************************************************)
MaxCtx == 2       \* ECC_State structs that may be live at once
MaxOpts == 2      \* ECC_Options objects ever allocated
MaxCalls == 5     \* ecc_new_state / ecc_free_state calls in one run

(***************************************************************************)
(* Machine integers.  `unsigned int` has at least 16 value bits; the model *)
(* keeps that minimum width, arithmetic on it is taken modulo UINT_MOD.    *)
(***************************************************************************)
UINT_MOD == 65536

NULL == "<NULL>"

(***************************************************************************)
(* Curve names.  DEFAULT_CURVE and the table behind curve_by_name live in  *)
(* curves.c; a name outside the table makes the lookup fail.               *)
(***************************************************************************)
DEFAULT_CURVE == "p160"
KnownCurves == {"p160", "p256"}
CurveNames == KnownCurves \cup {"bogus"}

VARIABLES
    refcount,   \* __init_ecc_refcount
    states,     \* heap of struct _ECC_State, by slot
    options,    \* heap of struct _ECC_Options, by slot
    gcry,       \* process-wide state of the cryptographic provider
    hist,       \* the ecc_new_state / ecc_free_state calls made so far
    crashed,    \* the process ended in undefined behaviour
    cst,        \* the ECC_State the caller passes to the key and crypto calls
    kp,         \* the ECC_KeyPair the caller holds
    env,        \* the envelope (ECC_Data) the caller holds
    sent,       \* what env was made from: plaintext, key pair, still untouched
    sigbuf,     \* the signature (ECC_Data) the caller holds
    signed,     \* what sigbuf was made from: message memory, key pair
    call,       \* the last key or crypto call: its inputs and its result
    thr         \* threads inside ecc_new_state / ecc_free_state: position, register

lifeVars == <<refcount, states, options, gcry, hist>>
cryptoVars == <<cst, kp, env, sent, sigbuf, signed, call>>

vars == <<refcount, states, options, gcry, hist, crashed,
          cst, kp, env, sent, sigbuf, signed, call, thr>>

(***************************************************************************)
(* Heap cells.                                                             *)
(***************************************************************************)
CtxIds == 1..MaxCtx
OptIds == 1..MaxOpts

NoState == [live |-> FALSE, options |-> 0, gcrypt_init |-> FALSE, curveparams |-> NULL]
NoOptions == [alloc |-> "none", secure_random |-> FALSE, curve |-> NULL, frees |-> 0]

LiveStates == {s \in CtxIds : states[s].live}

\* curve_by_name: the parameter set of a known curve, NULL for any other name.
curve_by_name(name) ==
    IF name \in KnownCurves THEN name ELSE NULL

\* __curve_from_opts(opts): opts is a heap index (0 is NULL), heap the options heap.
__curve_from_opts(opts, heap) ==
    IF opts # 0 /\ heap[opts].curve # NULL
    THEN curve_by_name(heap[opts].curve)
    ELSE curve_by_name(DEFAULT_CURVE)

(***************************************************************************)
(* __init_ecc(state): st is the struct, heap the options heap, rc the      *)
(* counter, g the provider, secmemErr / rndErr the error codes the two     *)
(* gcry_control calls return.  The result carries the struct, the counter  *)
(* and the provider after the call, and whether INIT_SECMEM was issued.    *)
(***************************************************************************)
__init_ecc(st, heap, rc, g, secmemErr, rndErr) ==
    IF st.gcrypt_init
    THEN [ok |-> TRUE, state |-> st, refcount |-> rc, gcry |-> g, setup |-> FALSE,
          vfail |-> FALSE]
    ELSE IF rc > 0
    THEN [ok |-> TRUE, state |-> [st EXCEPT !.gcrypt_init = TRUE],
          refcount |-> (rc + 1) % UINT_MOD, gcry |-> g, setup |-> FALSE,
          vfail |-> FALSE]
    ELSE IF ~g.version_ok
    THEN [ok |-> FALSE, state |-> st, refcount |-> rc, gcry |-> g, setup |-> FALSE,
          vfail |-> TRUE]
    ELSE LET g1 == [g EXCEPT !.n_init = @ + 1,
                             !.secmem = IF secmemErr THEN @ ELSE "on"]
             g2 == IF st.options # 0 /\ heap[st.options].secure_random
                   THEN [g1 EXCEPT !.rndpool = IF rndErr THEN @ ELSE TRUE]
                   ELSE g1
         IN [ok |-> TRUE, state |-> [st EXCEPT !.gcrypt_init = TRUE],
             refcount |-> rc, gcry |-> g2, setup |-> TRUE, vfail |-> FALSE]

(***************************************************************************)
(* ecc_new_state(opts).  ret is the struct returned, ret.live = FALSE for  *)
(* a NULL return.                                                          *)
(***************************************************************************)
ecc_new_state(opts, heap, rc, g, secmemErr, rndErr) ==
    LET state0 == [live |-> TRUE, options |-> opts, gcrypt_init |-> FALSE,
                   curveparams |-> NULL]
        ini == __init_ecc(state0, heap, rc, g, secmemErr, rndErr)
    IN IF ~ini.ok
       THEN [ret |-> NoState, refcount |-> ini.refcount, gcry |-> ini.gcry,
             setup |-> ini.setup, vfail |-> ini.vfail]
       ELSE [ret |-> [ini.state EXCEPT !.curveparams = __curve_from_opts(opts, heap)],
             refcount |-> ini.refcount, gcry |-> ini.gcry,
             setup |-> ini.setup, vfail |-> ini.vfail]

(***************************************************************************)
(* ecc_free_state(state): st is the struct (st.live = FALSE for a NULL     *)
(* argument), termErr the error code of gcry_control(TERM_SECMEM).         *)
(* dfree reports free() of an options object that was freed before.        *)
(***************************************************************************)
ecc_free_state(st, heap, rc, g, termErr) ==
    IF ~st.live
    THEN [options |-> heap, refcount |-> rc, gcry |-> g, teardown |-> FALSE,
          dfree |-> FALSE]
    ELSE LET o == st.options
             heap1 == IF o # 0
                      THEN [heap EXCEPT ![o].alloc = "freed", ![o].frees = @ + 1]
                      ELSE heap
             rc1 == IF st.gcrypt_init THEN (rc - 1) % UINT_MOD ELSE rc
             down == st.gcrypt_init /\ rc1 = 0
             g1 == IF down
                   THEN [g EXCEPT !.n_term = @ + 1,
                                  !.secmem = IF termErr THEN @ ELSE "off"]
                   ELSE g
         IN [options |-> heap1, refcount |-> rc1, gcry |-> g1, teardown |-> down,
             dfree |-> (o # 0 /\ heap[o].alloc = "freed")]

\* ecc_new_options(): the defaults.
ecc_new_options ==
    [alloc |-> "live", secure_random |-> TRUE, curve |-> DEFAULT_CURVE, frees |-> 0]

\* No key or crypto call made, nothing held.
NoSent == [fresh |-> FALSE, P |-> <<>>, kp |-> [nil |-> TRUE]]
NoSigned == [fresh |-> FALSE, mem |-> <<>>, kp |-> [nil |-> TRUE]]
NoCall == [op |-> "none"]

\* The two threads of a concurrent run, none of them inside a call.
Threads == {1, 2}
NoThreads ==
    [run |-> [t \in Threads |-> [pc |-> "idle", reg |-> 0, st |-> 0, rounds |-> 0]],
     incs |-> 0, decs |-> 0, early |-> FALSE]

CryptoIdle ==
    /\ cst = [live |-> FALSE, options |-> 0, gcrypt_init |-> FALSE, curveparams |-> NULL]
    /\ kp = [nil |-> TRUE]
    /\ env = [nil |-> TRUE, data |-> <<>>, datalen |-> 0]
    /\ sent = NoSent
    /\ sigbuf = [nil |-> TRUE, data |-> <<>>, datalen |-> 0]
    /\ signed = NoSigned
    /\ call = NoCall

(***************************************************************************)
(* Actions of the lifecycle.                                               *)
(***************************************************************************)
FreeSlot == CHOOSE s \in CtxIds : ~states[s].live /\ \A t \in CtxIds : ~states[t].live => s <= t

Call(op, ok, setup, teardown, vfail, cfail, rc1) ==
    [op |-> op, ok |-> ok, setup |-> setup, teardown |-> teardown,
     vfail |-> vfail, cfail |-> cfail,
     live |-> Cardinality(LiveStates), rc0 |-> refcount, rc1 |-> rc1]

\* DefaultOptions: ecc_new_options() into a fresh cell.
NewOptions ==
    /\ ~crashed
    /\ \E o \in OptIds :
          /\ options[o].alloc = "none"
          /\ \A p \in OptIds : p < o => options[p].alloc # "none"
          /\ options' = [options EXCEPT ![o] = ecc_new_options]
    /\ UNCHANGED <<refcount, states, gcry, hist, crashed>>
    /\ UNCHANGED <<cryptoVars, thr>>

\* The caller fills in the public fields of an Options object it holds.
SetOptions ==
    /\ ~crashed
    /\ \E o \in OptIds, c \in CurveNames \cup {NULL}, sr \in BOOLEAN :
          /\ options[o].alloc = "live"
          /\ \A s \in LiveStates : states[s].options # o
          /\ options' = [options EXCEPT ![o].curve = c, ![o].secure_random = sr]
    /\ UNCHANGED <<refcount, states, gcry, hist, crashed>>
    /\ UNCHANGED <<cryptoVars, thr>>

\* NewContext: ecc_new_state(opts) with opts NULL or an Options object not yet freed.
NewContext ==
    /\ ~crashed
    /\ Len(hist) < MaxCalls
    /\ LiveStates # CtxIds
    /\ \E opts \in {0} \cup {o \in OptIds : options[o].alloc = "live"},
          secmemErr \in BOOLEAN, rndErr \in BOOLEAN :
          LET r == ecc_new_state(opts, options, refcount, gcry, secmemErr, rndErr)
          IN /\ refcount' = r.refcount
             /\ gcry' = r.gcry
             /\ states' = IF r.ret.live THEN [states EXCEPT ![FreeSlot] = r.ret]
                          ELSE states
             /\ hist' = Append(hist, Call("new", r.ret.live, r.setup, FALSE, r.vfail,
                                          __curve_from_opts(opts, options) = NULL,
                                          r.refcount))
    /\ UNCHANGED <<options, crashed>>
    /\ UNCHANGED <<cryptoVars, thr>>

\* FreeContext: ecc_free_state(state) on a live Context.  A second free() of
\* the same Options object is undefined: the process may die there or go on.
FreeContext ==
    /\ ~crashed
    /\ Len(hist) < MaxCalls
    /\ \E s \in LiveStates, termErr \in BOOLEAN :
          LET r == ecc_free_state(states[s], options, refcount, gcry, termErr)
          IN /\ refcount' = r.refcount
             /\ gcry' = r.gcry
             /\ options' = r.options
             /\ states' = [states EXCEPT ![s] = NoState]
             /\ hist' = Append(hist, Call("free", TRUE, FALSE, r.teardown, FALSE,
                                          FALSE, r.refcount))
             /\ crashed' \in (IF r.dfree THEN BOOLEAN ELSE {FALSE})
    /\ UNCHANGED <<cryptoVars, thr>>

\* FreeContext(NULL): returns at once.
FreeNull ==
    /\ ~crashed
    /\ Len(hist) < MaxCalls
    /\ LET r == ecc_free_state(NoState, options, refcount, gcry, FALSE)
       IN /\ refcount' = r.refcount
          /\ gcry' = r.gcry
          /\ options' = r.options
          /\ hist' = Append(hist, Call("free_null", TRUE, FALSE, r.teardown, FALSE,
                                       FALSE, r.refcount))
    /\ UNCHANGED <<states, crashed>>
    /\ UNCHANGED <<cryptoVars, thr>>

LifeInit ==
    /\ refcount = 0
    /\ states = [s \in CtxIds |-> NoState]
    /\ options = [o \in OptIds |-> NoOptions]
    /\ gcry \in {[version_ok |-> v, secmem |-> "off", rndpool |-> FALSE,
                  n_init |-> 0, n_term |-> 0] : v \in BOOLEAN}
    /\ hist = <<>>
    /\ crashed = FALSE
    /\ thr = NoThreads
    /\ CryptoIdle

LifeNext ==
    \/ NewOptions
    \/ SetOptions
    \/ NewContext
    \/ FreeContext
    \/ FreeNull

SpecLife == LifeInit /\ [][LifeNext]_vars

(***************************************************************************)
(* Two threads in ecc_new_state(NULL) / ecc_free_state.  The code takes no *)
(* lock, so the accesses to __init_ecc_refcount interleave: `++` and `--`  *)
(* are a load and a store, the tests at lines 81 and 152 are loads.  A     *)
(* thread's pc names the line it is about to execute.  thr.incs and        *)
(* thr.decs count the `++` and `--` statements completed, thr.early        *)
(* records a TERM_SECMEM issued while another thread held an initialised   *)
(* ECC_State.                                                              *)
(***************************************************************************)
MaxRounds == 2    \* ecc_new_state / ecc_free_state pairs one thread runs

Run(t) == thr.run[t]
At(t, pc) == thr.run[t].pc = pc
Goto(t, pc) == [thr EXCEPT !.run[t].pc = pc]

\* The ECC_State thread t holds after its __init_ecc returned true.
Initialised(t) ==
    [states[Run(t).st] EXCEPT !.gcrypt_init = TRUE,
                              !.curveparams = __curve_from_opts(0, options)]

\* Another thread holds an ECC_State whose gcrypt_init is set.
OthersLive(t) ==
    \E u \in Threads \ {t} : Run(u).st # 0 /\ states[Run(u).st].gcrypt_init

\* free(state) at the end of ecc_free_state, or after a failed __init_ecc.
Released(t, th) ==
    [th EXCEPT !.run[t].pc = "idle", !.run[t].st = 0, !.run[t].rounds = @ + 1]

\* lines 122-125: the struct is allocated and zeroed.
ThreadNew ==
    \E t \in Threads :
        /\ At(t, "idle")
        /\ Run(t).rounds < MaxRounds
        /\ LiveStates # CtxIds
        /\ states' = [states EXCEPT ![FreeSlot] =
                         [live |-> TRUE, options |-> 0, gcrypt_init |-> FALSE,
                          curveparams |-> NULL]]
        /\ thr' = [thr EXCEPT !.run[t].pc = "L81", !.run[t].st = FreeSlot]
        /\ UNCHANGED <<refcount, options, gcry, hist, crashed, cryptoVars>>

\* line 81: if (__init_ecc_refcount > 0)
ThreadTest ==
    \E t \in Threads :
        /\ At(t, "L81")
        /\ thr' = Goto(t, IF refcount > 0 THEN "L82_load" ELSE "L87")
        /\ UNCHANGED <<refcount, states, options, gcry, hist, crashed, cryptoVars>>

\* line 82: __init_ecc_refcount++, the load
ThreadIncLoad ==
    \E t \in Threads :
        /\ At(t, "L82_load")
        /\ thr' = [thr EXCEPT !.run[t].pc = "L82_store", !.run[t].reg = refcount]
        /\ UNCHANGED <<refcount, states, options, gcry, hist, crashed, cryptoVars>>

\* lines 82-84 and 133: the store, gcrypt_init, the curve parameters
ThreadIncStore ==
    \E t \in Threads :
        /\ At(t, "L82_store")
        /\ refcount' = (Run(t).reg + 1) % UINT_MOD
        /\ states' = [states EXCEPT ![Run(t).st] = Initialised(t)]
        /\ thr' = [Goto(t, "L143") EXCEPT !.incs = @ + 1]
        /\ UNCHANGED <<options, gcry, hist, crashed, cryptoVars>>

\* lines 87-103 and 133: the version check and the real setup
ThreadSetup ==
    \E t \in Threads, secmemErr \in BOOLEAN :
        /\ At(t, "L87")
        /\ IF ~gcry.version_ok
           THEN /\ states' = [states EXCEPT ![Run(t).st] = NoState]
                /\ thr' = Released(t, thr)
                /\ gcry' = gcry
           ELSE /\ states' = [states EXCEPT ![Run(t).st] = Initialised(t)]
                /\ thr' = Goto(t, "L143")
                /\ gcry' = [gcry EXCEPT !.n_init = @ + 1,
                                        !.secmem = IF secmemErr THEN @ ELSE "on"]
        /\ UNCHANGED <<refcount, options, hist, crashed, cryptoVars>>

\* lines 143-150: ecc_free_state up to the load of __init_ecc_refcount--
ThreadDecLoad ==
    \E t \in Threads :
        /\ At(t, "L143")
        /\ thr' = [thr EXCEPT !.run[t].pc = "L150_store", !.run[t].reg = refcount]
        /\ UNCHANGED <<refcount, states, options, gcry, hist, crashed, cryptoVars>>

\* line 150: the store
ThreadDecStore ==
    \E t \in Threads :
        /\ At(t, "L150_store")
        /\ refcount' = (Run(t).reg - 1) % UINT_MOD
        /\ thr' = [Goto(t, "L152") EXCEPT !.decs = @ + 1]
        /\ UNCHANGED <<states, options, gcry, hist, crashed, cryptoVars>>

\* lines 152 and 161: if (__init_ecc_refcount == 0), else free(state)
ThreadCheck ==
    \E t \in Threads :
        /\ At(t, "L152")
        /\ IF refcount = 0
           THEN /\ thr' = Goto(t, "L155")
                /\ states' = states
           ELSE /\ thr' = Released(t, thr)
                /\ states' = [states EXCEPT ![Run(t).st] = NoState]
        /\ UNCHANGED <<refcount, options, gcry, hist, crashed, cryptoVars>>

\* lines 155-161: gcry_control(GCRYCTL_TERM_SECMEM), free(state)
ThreadTerm ==
    \E t \in Threads, termErr \in BOOLEAN :
        /\ At(t, "L155")
        /\ gcry' = [gcry EXCEPT !.n_term = @ + 1,
                                !.secmem = IF termErr THEN @ ELSE "off"]
        /\ states' = [states EXCEPT ![Run(t).st] = NoState]
        /\ thr' = [Released(t, thr) EXCEPT !.early = @ \/ OthersLive(t)]
        /\ UNCHANGED <<refcount, options, hist, crashed, cryptoVars>>

ThreadInit ==
    /\ refcount = 0
    /\ states = [s \in CtxIds |-> NoState]
    /\ options = [o \in OptIds |-> NoOptions]
    /\ gcry \in {[version_ok |-> v, secmem |-> "off", rndpool |-> FALSE,
                  n_init |-> 0, n_term |-> 0] : v \in BOOLEAN}
    /\ hist = <<>>
    /\ crashed = FALSE
    /\ thr = NoThreads
    /\ CryptoIdle

ThreadNext ==
    \/ ThreadNew
    \/ ThreadTest
    \/ ThreadIncLoad
    \/ ThreadIncStore
    \/ ThreadSetup
    \/ ThreadDecLoad
    \/ ThreadDecStore
    \/ ThreadCheck
    \/ ThreadTerm

SpecThreads == ThreadInit /\ [][ThreadNext]_vars

(***************************************************************************)
(* Bytes and C strings.                                                    *)
(***************************************************************************)
MaxLen == 2       \* longest plaintext, message and seed a caller passes
MaxByte == 2      \* a caller's bytes are drawn from 0..MaxByte
MaxForge == 3     \* longest envelope a caller builds by hand

BYTE_MOD == 256

RECURSIVE SeqsUpTo(_, _)
SeqsUpTo(S, n) ==
    IF n = 0 THEN {<<>>}
    ELSE LET shorter == SeqsUpTo(S, n - 1)
         IN shorter \cup {Append(q, b) : q \in {r \in shorter : Len(r) = n - 1}, b \in S}

CallerBytes == 0..MaxByte
ByteStrings == SeqsUpTo(CallerBytes, MaxLen)

Take(q, n) == SubSeq(q, 1, IF n < Len(q) THEN n ELSE Len(q))
Drop(q, n) == SubSeq(q, n + 1, Len(q))

\* strlen(p) where mem is the memory at p: the bytes before the first zero.
\* The callers below pass memory that ends in a zero byte.
RECURSIVE strlen(_)
strlen(mem) ==
    IF mem = <<>> \/ mem[1] = 0 THEN 0 ELSE 1 + strlen(Tail(mem))

RECURSIVE SumSeq(_)
SumSeq(q) == IF q = <<>> THEN 0 ELSE q[1] + SumSeq(Tail(q))

RECURSIVE Xor(_, _)
Xor(a, b) ==
    IF a = 0 THEN b
    ELSE IF b = 0 THEN a
    ELSE ((a + b) % 2) + 2 * Xor(a \div 2, b \div 2)

(***************************************************************************)
(* The curve arithmetic, the codec and the protocol primitives (ecc.c,     *)
(* curves.c, serialize.c, protocol.c, aes256ctr.c).  A curve is a cyclic   *)
(* group of prime order; a point is its discrete logarithm to the base     *)
(* point, 0 the point at infinity.                                         *)
(***************************************************************************)
COMPACT_BASE == 3      \* digits of the compact encoding
COMPACT_ZERO == 33     \* the first compact digit, '!'
DEFAULT_MAC_LEN == 2   \* tag bytes kept in the envelope
HMAC_LEN == 4          \* bytes of a full keyed-hash tag
HMAC_KEY_SIZE == 32
KEYBUF_LEN == 64       \* gcry_malloc_secure(64)

RECURSIVE SerLen(_, _)
\* Digits needed to write every value 0..max in base b.
SerLen(max, b) == IF max < b THEN 1 ELSE 1 + SerLen(max \div b, b)

CurveOrder(name) == IF name = "p160" THEN 5 ELSE 7

CurveParams(name) ==
    LET q == CurveOrder(name)
    IN [order |-> q,
        base |-> 1,
        pk_len_bin |-> IF name = "p160" THEN 2 ELSE 3,
        pk_len_compact |-> SerLen(q - 1, COMPACT_BASE),
        sig_len_compact |-> SerLen(q * q - 1, COMPACT_BASE)]

\* pointmul(p, s, dp): s times the point p.
pointmul(p, s, cp) == (p * s) % cp.order

RECURSIVE Digits(_, _, _)
\* x written with n digits in base b, most significant first (x mod b^n).
Digits(x, n, b) ==
    IF n = 0 THEN <<>> ELSE Append(Digits(x \div b, n - 1, b), x % b)

RECURSIVE FromDigits(_, _)
FromDigits(ds, b) ==
    IF ds = <<>> THEN 0 ELSE FromDigits(SubSeq(ds, 1, Len(ds) - 1), b) * b + ds[Len(ds)]

\* serialize_mpi(outbuf, outlen, df, x): outlen bytes, no terminator.
serialize_mpi(outlen, df, x) ==
    IF df = "DF_BIN"
    THEN Digits(x, outlen, BYTE_MOD)
    ELSE [i \in 1..outlen |-> COMPACT_ZERO + Digits(x, outlen, COMPACT_BASE)[i]]

\* deserialize_mpi(&x, df, buf, inlen): fails on a byte that is no digit.
deserialize_mpi(df, buf, inlen) ==
    IF df = "DF_BIN"
    THEN [ok |-> TRUE, x |-> FromDigits(SubSeq(buf, 1, inlen), BYTE_MOD)]
    ELSE IF \A i \in 1..inlen :
               buf[i] >= COMPACT_ZERO /\ buf[i] < COMPACT_ZERO + COMPACT_BASE
         THEN [ok |-> TRUE,
               x |-> FromDigits([i \in 1..inlen |-> buf[i] - COMPACT_ZERO], COMPACT_BASE)]
         ELSE [ok |-> FALSE, x |-> 0]

PkLen(df, cp) == IF df = "DF_BIN" THEN cp.pk_len_bin ELSE cp.pk_len_compact

\* compress_to_string(buf, df, P, cp): the encoded point, PkLen(df, cp) bytes.
compress_to_string(df, P, cp) == serialize_mpi(PkLen(df, cp), df, P)

\* decompress_from_string(P, buf, df, cp): reads PkLen(df, cp) bytes of buf;
\* fails unless they encode a point of the curve other than infinity.
decompress_from_string(buf, df, cp) ==
    LET d == deserialize_mpi(df, buf, PkLen(df, cp))
    IN IF d.ok /\ d.x >= 1 /\ d.x < cp.order
       THEN [ok |-> TRUE, P |-> d.x]
       ELSE [ok |-> FALSE, P |-> 0]

\* The digests (gcry_md_*): SHA-256, SHA-512 and HMAC-SHA256 of a byte string.
RECURSIVE Mix(_, _, _)
Mix(q, acc, mul) ==
    IF q = <<>> THEN acc
    ELSE Mix(Tail(q), (acc * mul + q[1] + 1) % 251, mul)

SHA256(q) == Mix(q, 7, 31)
SHA512(q) == Mix(q, 11, 37)
HMAC(key, q) ==
    LET h == Mix(q, Mix(key, 3, 5), 29)
    IN [i \in 1..HMAC_LEN |-> (h * i + 17 * i * i) % BYTE_MOD]

\* hash_to_exponent(hash, cp): a scalar in 1..order-1.
hash_to_exponent(h, cp) == 1 + (h % (cp.order - 1))

\* The 64 secret bytes derived from the shared point Z.
KDF(Z) == [i \in 1..KEYBUF_LEN |-> (Z * 37 + i * 11) % BYTE_MOD]

\* ECIES_encryption(key, P, cp) with ephemeral scalar k: R = kG, Z = kP.
ECIES_encryption(P, k, cp) ==
    [R |-> pointmul(cp.base, k, cp), key |-> KDF(pointmul(P, k, cp))]

\* ECIES_decryption(key, R, d, cp): Z = dR, fails when Z is the point at infinity.
ECIES_decryption(R, d, cp) ==
    LET Z == pointmul(R, d, cp)
    IN IF Z = 0 THEN [ok |-> FALSE, key |-> [i \in 1..KEYBUF_LEN |-> 0]]
       ELSE [ok |-> TRUE, key |-> KDF(Z)]

\* aes256ctr: the keystream byte at position j (from 0) under the 32-byte key,
\* and aes256ctr_enc / aes256ctr_dec of a buffer from position 0.
KeyStream(key, j) == (key[1 + (j % 32)] * 3 + 5 * j + 1) % BYTE_MOD
aes256ctr_enc(key, buf) == [i \in 1..Len(buf) |-> Xor(buf[i], KeyStream(key, i - 1))]
aes256ctr_dec(key, buf) == aes256ctr_enc(key, buf)

\* Modular inverse in the scalar field (order prime).
Inverse(a, q) == CHOOSE w \in 1..(q - 1) : (a * w) % q = 1

\* ECDSA_sign(msg, d, cp) with nonce k: r = x(kG), s = (h + r d) / k, packed as
\* s * order + r; the nonce is one for which r and s are not zero.
GoodNonce(hash, d, k, cp) == ((hash + k * d) % cp.order) # 0
ECDSA_sign(hash, d, k, cp) ==
    LET q == cp.order
        r == pointmul(cp.base, k, cp)
        s == (Inverse(k, q) * ((hash + r * d) % q)) % q
    IN s * q + r

\* ECDSA_verify(msg, Q, sig, cp).
ECDSA_verify(hash, Q, sig, cp) ==
    LET q == cp.order
        r == sig % q
        s == sig \div q
    IN /\ r >= 1 /\ r < q /\ s >= 1 /\ s < q
       /\ LET w == Inverse(s, q)
              u1 == (hash * w) % q
              u2 == (r * w) % q
          IN (pointmul(cp.base, u1, cp) + pointmul(Q, u2, cp)) % q = r

(***************************************************************************)
(* Values passed across the API.  A char pointer is [nil, mem]: mem is the *)
(* memory it addresses.  An ECC_Data is [nil, data, datalen]: data is the  *)
(* allocated block.  An ECC_KeyPair is [nil, pub, priv, pub_len]: priv is  *)
(* the scalar, 0 for a NULL gcry_mpi_t.                                    *)
(***************************************************************************)
NullStr == [nil |-> TRUE, mem |-> <<>>]
CStr(q) == [nil |-> FALSE, mem |-> Append(q, 0)]
Buf(q) == [nil |-> FALSE, mem |-> q]

NullData == [nil |-> TRUE, data |-> <<>>, datalen |-> 0]
NullKeyPair == [nil |-> TRUE, pub |-> NullStr, priv |-> 0, pub_len |-> 0]

\* ecc_new_data(): an empty buffer, datalen 0.
ecc_new_data == [nil |-> FALSE, data |-> <<>>, datalen |-> 0]

\* The struct a successful ecc_new_state(opts) returns for an Options object
\* naming curve c, and the NULL argument.
StateFor(c) ==
    ecc_new_state(1, <<[ecc_new_options EXCEPT !.curve = c]>>, 0,
                  [version_ok |-> TRUE, secmem |-> "off", rndpool |-> FALSE,
                   n_init |-> 0, n_term |-> 0], FALSE, FALSE).ret
StateArgs == {NoState} \cup {StateFor(c) : c \in CurveNames}

\* Dereferencing state->curveparams faults for a NULL state or NULL parameters.
BadCurve(state) == ~state.live \/ state.curveparams = NULL

__verify_keypair(keypair, require_private, require_public) ==
    IF keypair.nil THEN FALSE
    ELSE IF require_private /\ keypair.priv = 0 THEN FALSE
    ELSE IF require_public /\ (keypair.pub.nil \/ strlen(keypair.pub.mem) = 0) THEN FALSE
    ELSE TRUE

__verify_state(state) ==
    IF ~state.live \/ ~state.gcrypt_init THEN FALSE ELSE TRUE

(***************************************************************************)
(* ecc_new_keypair(pubkey, privkey, state); mdErr is the error code of     *)
(* gcry_md_open.  The result is [kp, crash].                               *)
(***************************************************************************)
ecc_new_keypair(pubkey, privkey, state, mdErr) ==
    LET kp0 == [nil |-> FALSE,
                pub |-> pubkey,
                priv |-> 0,
                pub_len |-> IF pubkey.nil THEN 0 ELSE strlen(pubkey.mem)]
    IN IF privkey.nil THEN [kp |-> kp0, crash |-> FALSE]
       ELSE IF mdErr THEN [kp |-> NullKeyPair, crash |-> FALSE]
       ELSE IF BadCurve(state) THEN [kp |-> NullKeyPair, crash |-> TRUE]
       ELSE LET privkey_secure == SHA256(Take(privkey.mem, strlen(privkey.mem)))
                cp == CurveParams(state.curveparams)
            IN [kp |-> [kp0 EXCEPT !.priv = hash_to_exponent(privkey_secure, cp)],
                crash |-> FALSE]

(***************************************************************************)
(* ecc_keygen(priv, state).  A NULL result of ecc_new_keypair is           *)
(* dereferenced.                                                           *)
(***************************************************************************)
ecc_keygen(priv, state, mdErr) ==
    IF priv.nil THEN [kp |-> NullKeyPair, crash |-> FALSE, derived |-> FALSE]
    ELSE LET r == ecc_new_keypair(NullStr, priv, state, mdErr)
         IN IF r.crash \/ r.kp.nil \/ BadCurve(state)
            THEN [kp |-> NullKeyPair, crash |-> TRUE, derived |-> ~r.kp.nil]
            ELSE LET cp == CurveParams(state.curveparams)
                     ap == pointmul(cp.base, r.kp.priv, cp)
                 IN [kp |-> [r.kp EXCEPT !.pub = Buf(compress_to_string("DF_COMPACT", ap, cp))],
                     crash |-> FALSE, derived |-> TRUE]

(***************************************************************************)
(* ecc_encrypt(data, databytes, keypair, state).  k is the ephemeral       *)
(* scalar ECIES_encryption draws, fault names the primitive that fails     *)
(* ("secmem": gcry_malloc_secure, "aes": aes256ctr_init, "hmac":           *)
(* hmacsha256_init, "none").  The result carries the returned buffer rc,   *)
(* the bytes written into the MAC handle, the state of the secret buffer   *)
(* when it was last touched ("none": never allocated, "secret", "zero"),   *)
(* whether it was freed, and the resources still held at return.           *)
(***************************************************************************)
\* The three memcpy calls that fill rc->data, and the final offset stored in
\* rc->datalen.
envelope_overlay_short(readbuf, plaintext, md, pk_len_bin, databytes) ==
    LET offset1 == pk_len_bin
        offset2 == offset1 + databytes
    IN [data |-> SubSeq(readbuf, 1, pk_len_bin) \o SubSeq(plaintext, 1, databytes)
                    \o SubSeq(md, 1, DEFAULT_MAC_LEN),
        datalen |-> offset2]

envelope_overlay(readbuf, plaintext, md, pk_len_bin, databytes) ==
    LET offset1 == pk_len_bin
        offset2 == offset1 + databytes
        offset3 == offset2 + DEFAULT_MAC_LEN
    IN [data |-> SubSeq(readbuf, 1, pk_len_bin) \o SubSeq(plaintext, 1, databytes)
                    \o SubSeq(md, 1, DEFAULT_MAC_LEN),
        datalen |-> offset3]

EncResult(rc, crash, R, mac_in, keybuf, keybuf_freed, held) ==
    [rc |-> rc, crash |-> crash, R |-> R, mac_in |-> mac_in, keybuf |-> keybuf,
     keybuf_freed |-> keybuf_freed, held |-> held]

ecc_encrypt(data, databytes, keypair, state, k, fault) ==
    IF data.nil \/ strlen(data.mem) = 0
    THEN EncResult(NullData, FALSE, 0, <<>>, "none", FALSE, {})
    ELSE IF ~__verify_keypair(keypair, FALSE, TRUE)
    THEN EncResult(NullData, FALSE, 0, <<>>, "none", FALSE, {})
    ELSE IF ~__verify_state(state)
    THEN EncResult(NullData, FALSE, 0, <<>>, "none", FALSE, {})
    ELSE IF BadCurve(state)
    THEN EncResult(NullData, TRUE, 0, <<>>, "none", FALSE, {})
    ELSE
    LET cp == CurveParams(state.curveparams)
        \* a pub string shorter than pk_len_compact ends in its zero byte
        pubmem == keypair.pub.mem \o [i \in 1..cp.pk_len_compact |-> 0]
        P == decompress_from_string(pubmem, "DF_COMPACT", cp)
    IN IF ~P.ok
       THEN EncResult(NullData, FALSE, 0, <<>>, "none", FALSE, {"readbuf", "P", "R"})
       ELSE IF fault = "secmem"
       THEN EncResult(NullData, FALSE, 0, <<>>, "none", FALSE,
                      {"readbuf", "P", "R", "P.point"})
       ELSE
       LET e == ECIES_encryption(P.P, k, cp)
           keybuf == e.key
           readbuf == compress_to_string("DF_BIN", e.R, cp)
       IN IF fault = "aes"
          THEN EncResult(NullData, FALSE, e.R, <<>>, "secret", TRUE, {})
          ELSE IF fault = "hmac"
          THEN EncResult(NullData, FALSE, e.R, <<>>, "secret", TRUE, {"ac"})
          ELSE
          LET plaintext == aes256ctr_enc(Take(keybuf, 32), Take(data.mem, databytes))
              mac_in == <<>>
              md == HMAC(SubSeq(keybuf, 33, 32 + HMAC_KEY_SIZE), mac_in)
              filled == envelope_overlay(readbuf, plaintext, md, cp.pk_len_bin, databytes)
              rc == [ecc_new_data EXCEPT !.data = filled.data,
                                         !.datalen = filled.datalen]
          IN EncResult(rc, FALSE, e.R, mac_in, "secret", TRUE, {})

(***************************************************************************)
(* ecc_decrypt(encrypted, keypair, state).  oob are the bytes that lie     *)
(* behind the envelope's block in memory, ub chooses the outcome where the *)
(* code runs into undefined behaviour with a negative length.  The result  *)
(* also carries the envelope as the call leaves it, whether bytes behind   *)
(* the block were read, and the ciphertext length computed (offset).       *)
(***************************************************************************)
DecResult(rc, crash, encrypted, overread, offset, mac_in, keybuf, keybuf_freed, held) ==
    [rc |-> rc, crash |-> crash, env |-> encrypted, overread |-> overread,
     offset |-> offset, mac_in |-> mac_in, keybuf |-> keybuf,
     keybuf_freed |-> keybuf_freed, held |-> held]

NoOffset == -1000

\* lines 308-310: the bytes copied into rc->data, the block without its tag.
decrypt_copy_all(block, offset) == SubSeq(block, 1, offset)

decrypt_copy(block, offset) == SubSeq(block, 1, offset - DEFAULT_MAC_LEN)

ecc_decrypt(encrypted, keypair, state, fault, oob, ub) ==
    IF encrypted.nil \/ BadCurve(state)
    THEN DecResult(NullData, TRUE, encrypted, FALSE, NoOffset, <<>>, "none", FALSE, {"R"})
    ELSE
    LET cp == CurveParams(state.curveparams)
        overread == Len(encrypted.data) < cp.pk_len_bin
        R == decompress_from_string(encrypted.data \o oob, "DF_BIN", cp)
    IN IF ~R.ok
       THEN DecResult(NullData, FALSE, encrypted, overread, NoOffset, <<>>, "none",
                      FALSE, {"R"})
       ELSE IF fault = "secmem"
       THEN DecResult(NullData, FALSE, encrypted, overread, NoOffset, <<>>, "none",
                      FALSE, {"R", "R.point"})
       ELSE IF keypair.nil \/ keypair.priv = 0
       THEN DecResult(NullData, TRUE, encrypted, overread, NoOffset, <<>>, "secret",
                      FALSE, {"R", "R.point", "keybuf"})
       ELSE
       LET d == ECIES_decryption(R.P, keypair.priv, cp)
       IN IF ~d.ok
          THEN DecResult(NullData, FALSE, encrypted, overread, NoOffset, <<>>, "secret",
                         FALSE, {"R", "R.point", "keybuf"})
          ELSE IF fault = "aes"
          THEN DecResult(NullData, FALSE, encrypted, overread, NoOffset, <<>>, "secret",
                         TRUE, {"R"})
          ELSE IF fault = "hmac"
          THEN DecResult(NullData, FALSE, encrypted, overread, NoOffset, <<>>, "secret",
                         TRUE, {"R", "ac"})
          ELSE
          LET rc0 == ecc_new_data
              offset == encrypted.datalen - cp.pk_len_bin
              outlen == offset - DEFAULT_MAC_LEN
          IN IF outlen < 0
             THEN \* a negative length reaches gcry_md_write, malloc or memcpy
                  DecResult(rc0, ub = "crash", encrypted, overread, offset, <<>>,
                            "zero", ub # "crash", {"R", "digest"})
             ELSE
             LET block == SubSeq(encrypted.data, cp.pk_len_bin + 1, encrypted.datalen)
                 mac_in == block
                 plain == aes256ctr_dec(Take(d.key, 32), block)
                 env1 == [encrypted EXCEPT
                             !.data = SubSeq(encrypted.data, 1, cp.pk_len_bin) \o plain]
                 rc == [rc0 EXCEPT !.data = decrypt_copy(plain, offset)]
             IN DecResult(rc, FALSE, env1, overread, offset, mac_in, "zero", TRUE,
                          {"R", "digest"})

(***************************************************************************)
(* ecc_sign(data, keypair, state).  k is the nonce ECDSA_sign draws, fault *)
(* the primitive that fails ("md_open": gcry_md_open, "md_read":           *)
(* gcry_md_read returns NULL, "sign": ECDSA_sign returns NULL, "none"),    *)
(* ub the outcome of releasing a handle that was never set.  The result    *)
(* carries the returned buffer, the releases applied to handles that were  *)
(* never acquired, and the resources still held at return.                 *)
(***************************************************************************)
SignResult(rc, crash, wild, held) ==
    [rc |-> rc, crash |-> crash, wild |-> wild, held |-> held]

\* The block ecc_sign hands out: the compact signature and a terminator.
sign_serialize_short(signature, cp) ==
    Append(serialize_mpi(cp.sig_len_compact - 1, "DF_COMPACT", signature), 0)

sign_serialize(signature, cp) ==
    Append(serialize_mpi(cp.sig_len_compact, "DF_COMPACT", signature), 0)

\* ECDSA_sign repeats with another nonce while r or s is zero.
Nonce(hash, d, k, cp) ==
    IF GoodNonce(hash, d, k, cp) THEN k
    ELSE CHOOSE k2 \in 1..(cp.order - 1) :
            /\ GoodNonce(hash, d, k2, cp)
            /\ \A k3 \in 1..(cp.order - 1) : GoodNonce(hash, d, k3, cp) => k2 <= k3

ecc_sign(data, keypair, state, k, fault, ub) ==
    IF data.nil \/ strlen(data.mem) = 0
    THEN SignResult(NullData, FALSE, {}, {})
    ELSE IF ~__verify_keypair(keypair, TRUE, FALSE)
    THEN SignResult(NullData, FALSE, {}, {})
    ELSE IF ~__verify_state(state)
    THEN SignResult(NullData, FALSE, {}, {})
    ELSE IF fault = "md_open"
    THEN SignResult(NullData, ub = "crash", {"signature", "digest"}, {})
    ELSE IF fault = "md_read"
    THEN SignResult(NullData, ub = "crash", {"signature"}, {})
    ELSE IF BadCurve(state)
    THEN SignResult(NullData, TRUE, {}, {"digest"})
    ELSE
    LET cp == CurveParams(state.curveparams)
        digest_buf == SHA512(Take(data.mem, strlen(data.mem)))
    IN IF fault = "sign"
       THEN SignResult(NullData, FALSE, {}, {})
       ELSE
       LET signature == ECDSA_sign(digest_buf, keypair.priv,
                                   Nonce(digest_buf, keypair.priv, k, cp), cp)
           rc == [ecc_new_data EXCEPT !.data = sign_serialize(signature, cp)]
       IN SignResult(rc, FALSE, {}, {})

(***************************************************************************)
(* ecc_verify(data, signature, keypair, state).  fault is "md_open" or     *)
(* "none".                                                                 *)
(***************************************************************************)
VerifyResult(rc, crash, wild, held) ==
    [rc |-> rc, crash |-> crash, wild |-> wild, held |-> held]

ecc_verify(data, signature, keypair, state, fault, ub) ==
    IF data.nil \/ strlen(data.mem) = 0
    THEN VerifyResult(FALSE, FALSE, {}, {})
    ELSE IF signature.nil \/ strlen(signature.mem) = 0
    THEN VerifyResult(FALSE, FALSE, {}, {})
    ELSE IF keypair.nil \/ keypair.pub.nil
    THEN VerifyResult(FALSE, FALSE, {}, {})
    ELSE IF ~state.live \/ ~state.gcrypt_init
    THEN VerifyResult(FALSE, FALSE, {}, {})
    ELSE IF BadCurve(state)
    THEN VerifyResult(FALSE, TRUE, {}, {})
    ELSE
    LET cp == CurveParams(state.curveparams)
        pubmem == keypair.pub.mem \o [i \in 1..cp.pk_len_compact |-> 0]
        ap == decompress_from_string(pubmem, "DF_COMPACT", cp)
    IN IF ~ap.ok
       THEN VerifyResult(FALSE, ub = "crash", {"_ap", "digest"}, {})
       ELSE IF fault = "md_open"
       THEN VerifyResult(FALSE, ub = "crash", {"digest"}, {})
       ELSE
       LET digest_buf == SHA512(Take(data.mem, strlen(data.mem)))
           sig == deserialize_mpi("DF_COMPACT", signature.mem, strlen(signature.mem))
       IN IF ~sig.ok
          THEN VerifyResult(FALSE, FALSE, {}, {})
          ELSE VerifyResult(ECDSA_verify(digest_buf, ap.P, sig.x, cp), FALSE, {}, {})

\* ecc_free_data(data): the caller's handle after the call.
ecc_free_data(data) == NullData

(***************************************************************************)
(* What callers pass.                                                      *)
(***************************************************************************)
MaxEph == 2       \* ephemeral scalars and nonces are drawn from 1..MaxEph
MaxDecrypt == 2   \* ecc_decrypt calls on one envelope

SeedArgs == {NullStr} \cup {CStr(q) : q \in ByteStrings}
PairSeeds == {NullStr, CStr(<<>>), CStr(<<1>>)}
PubArgs == {NullStr, CStr(<<>>), CStr(<<COMPACT_ZERO, COMPACT_ZERO + 1>>),
            CStr(<<COMPACT_ZERO, 120>>)}
EncFaults == {"none", "secmem", "aes", "hmac"}
Ephemerals(state) ==
    IF BadCurve(state) THEN {1}
    ELSE {k \in 1..MaxEph : k < CurveParams(state.curveparams).order}

\* The bytes read behind a block of have bytes when need are read.
BehindBytes == {0, 1}
Behind(have, need) ==
    IF have >= need THEN {<<>>} ELSE [1..(need - have) -> BehindBytes]

\* The outcomes of running into a negative length: only then is there a choice.
Outcomes(encrypted, state) ==
    IF ~BadCurve(state) /\ encrypted.datalen <
           CurveParams(state.curveparams).pk_len_bin + DEFAULT_MAC_LEN
    THEN {"crash", "return"} ELSE {"crash"}

(***************************************************************************)
(* Actions of the ECIES engine and of key handling.  A run makes its key   *)
(* pair, then one envelope (by ecc_encrypt or by hand), then passes that   *)
(* envelope to ecc_decrypt, and again after a call that returned a buffer, *)
(* up to MaxDecrypt times.                                                 *)
(***************************************************************************)
KeyGen ==
    /\ ~crashed
    /\ call.op = "none"
    /\ \E seed \in SeedArgs, mdErr \in BOOLEAN :
          LET r == ecc_keygen(seed, cst, mdErr)
          IN /\ kp' = r.kp
             /\ crashed' = r.crash
             /\ call' = [op |-> "keygen", seed |-> seed, mdErr |-> mdErr,
                         ret |-> r.kp, derived |-> r.derived]
    /\ UNCHANGED <<cst, env, sent, sigbuf, signed>>
    /\ UNCHANGED <<lifeVars, thr>>

NewKeyPair ==
    /\ ~crashed
    /\ call.op = "none"
    /\ \E pubkey \in PubArgs, privkey \in PairSeeds, mdErr \in BOOLEAN :
          LET r == ecc_new_keypair(pubkey, privkey, cst, mdErr)
          IN /\ kp' = r.kp
             /\ crashed' = r.crash
             /\ call' = [op |-> "new_keypair", ret |-> r.kp]
    /\ UNCHANGED <<cst, env, sent, sigbuf, signed>>
    /\ UNCHANGED <<lifeVars, thr>>

KeysMade == call.op \in {"none", "keygen", "new_keypair"}

Encrypt ==
    /\ ~crashed
    /\ KeysMade
    /\ \E P \in ByteStrings, after \in CallerBytes, nodata \in BOOLEAN,
          k \in Ephemerals(cst), fault \in EncFaults :
          /\ P # <<>> => after = 0
          /\ nodata => P = <<>> /\ after = 0
          /\ LET data == IF nodata THEN NullStr ELSE Buf(Append(P, after))
                 r == ecc_encrypt(data, Len(P), kp, cst, k, fault)
             IN /\ env' = r.rc
                /\ sent' = IF r.rc.nil THEN NoSent
                           ELSE [fresh |-> TRUE, P |-> P, kp |-> kp]
                /\ crashed' = r.crash
                /\ call' = [op |-> "encrypt", data |-> data, P |-> P, k |-> k,
                            fault |-> fault, kp |-> kp, out |-> r]
    /\ UNCHANGED <<cst, kp, sigbuf, signed>>
    /\ UNCHANGED <<lifeVars, thr>>

\* The caller builds an envelope by hand.
Forge ==
    /\ ~crashed
    /\ KeysMade
    /\ \E q \in SeqsUpTo(CallerBytes, MaxForge) :
          env' = [nil |-> FALSE, data |-> q, datalen |-> Len(q)]
    /\ sent' = NoSent
    /\ call' = [op |-> "forge"]
    /\ UNCHANGED <<cst, kp, sigbuf, signed, crashed>>
    /\ UNCHANGED <<lifeVars, thr>>

Decrypt ==
    /\ ~crashed
    /\ \/ call.op = "forge"
       \/ call.op = "encrypt" /\ ~env.nil
       \/ call.op = "decrypt" /\ call.n < MaxDecrypt /\ ~call.out.rc.nil
       \/ KeysMade
    /\ \E fault \in EncFaults, ub \in Outcomes(env, cst),
          oob \in Behind(Len(env.data),
                         IF BadCurve(cst) THEN 0
                         ELSE CurveParams(cst.curveparams).pk_len_bin) :
          LET r == ecc_decrypt(env, kp, cst, fault, oob, ub)
          IN /\ env' = r.env
             /\ sent' = [sent EXCEPT !.fresh = @ /\ r.env = env]
             /\ crashed' = r.crash
             /\ call' = [op |-> "decrypt", env |-> env, fresh |-> sent.fresh,
                         P |-> sent.P, sender |-> sent.kp, fault |-> fault,
                         kp |-> kp, out |-> r,
                         n |-> IF call.op = "decrypt" THEN call.n + 1 ELSE 1]
    /\ UNCHANGED <<cst, kp, sigbuf, signed>>
    /\ UNCHANGED <<lifeVars, thr>>

FreeData ==
    /\ ~crashed
    /\ ~env.nil
    /\ env' = ecc_free_data(env)
    /\ sent' = NoSent
    /\ call' = [op |-> "free_data"]
    /\ UNCHANGED <<cst, kp, sigbuf, signed, crashed>>
    /\ UNCHANGED <<lifeVars, thr>>

(***************************************************************************)
(* Actions of the ECDSA engine.  A run makes its key pair, then one        *)
(* signature, then verifies once.                                          *)
(***************************************************************************)
SignFaults == {"none", "md_open", "md_read", "sign"}
VerifyFaults == {"none", "md_open"}
Releases == {"crash", "return"}

Sign ==
    /\ ~crashed
    /\ KeysMade
    /\ \E data \in SeedArgs, k \in Ephemerals(cst), fault \in SignFaults,
          ub \in Releases :
          /\ fault \notin {"md_open", "md_read"} => ub = "crash"
          /\ LET r == ecc_sign(data, kp, cst, k, fault, ub)
             IN /\ sigbuf' = r.rc
                /\ signed' = IF r.rc.nil THEN NoSigned
                             ELSE [fresh |-> TRUE, mem |-> data.mem, kp |-> kp]
                /\ crashed' = r.crash
                /\ call' = [op |-> "sign", data |-> data, k |-> k, fault |-> fault,
                            kp |-> kp, out |-> r]
    /\ UNCHANGED <<cst, kp, env, sent>>
    /\ UNCHANGED <<lifeVars, thr>>

\* The messages and signatures a verifier is handed: the signed message and
\* the signature block of the last ecc_sign, and a few others.
VerifyData ==
    {NullStr, CStr(<<>>), CStr(<<1>>), CStr(<<0, 1>>)}
        \cup (IF signed.fresh THEN {Buf(signed.mem)} ELSE {})
VerifySigs ==
    {NullStr, CStr(<<>>), CStr(<<COMPACT_ZERO + 1, COMPACT_ZERO + 2>>),
     CStr(<<COMPACT_ZERO, 120>>)}
        \cup (IF sigbuf.nil THEN {} ELSE {Buf(sigbuf.data)})

Verify ==
    /\ ~crashed
    /\ KeysMade \/ (call.op = "sign" /\ ~sigbuf.nil)
    /\ \E data \in VerifyData, signature \in VerifySigs, fault \in VerifyFaults,
          ub \in Releases :
          LET r == ecc_verify(data, signature, kp, cst, fault, ub)
          IN /\ r.wild = {} => ub = "crash"
             /\ crashed' = r.crash
             /\ call' = [op |-> "verify", data |-> data, signature |-> signature,
                         fault |-> fault, kp |-> kp, signed |-> signed,
                         of_sign |-> (~sigbuf.nil /\ signature = Buf(sigbuf.data)),
                         out |-> r]
    /\ UNCHANGED <<cst, kp, env, sent, sigbuf, signed>>
    /\ UNCHANGED <<lifeVars, thr>>

CryptoInit ==
    /\ refcount = 0
    /\ states = [s \in CtxIds |-> NoState]
    /\ options = [o \in OptIds |-> NoOptions]
    /\ gcry = [version_ok |-> TRUE, secmem |-> "on", rndpool |-> FALSE,
               n_init |-> 1, n_term |-> 0]
    /\ hist = <<>>
    /\ crashed = FALSE
    /\ cst \in StateArgs
    /\ kp = NullKeyPair
    /\ env = NullData
    /\ sent = NoSent
    /\ sigbuf = NullData
    /\ signed = NoSigned
    /\ call = NoCall
    /\ thr = NoThreads

CryptoNext ==
    \/ KeyGen
    \/ NewKeyPair
    \/ Encrypt
    \/ Forge
    \/ Decrypt
    \/ FreeData
    \/ Sign
    \/ Verify

SpecCrypto == CryptoInit /\ [][CryptoNext]_vars

(***************************************************************************)
(* Claims about the lifecycle, checked under SpecLife.                     *)
(***************************************************************************)
\* hist is n successful NewContext calls followed by k FreeContext calls.
NewsThenFrees(n, k) ==
    /\ Len(hist) = n + k
    /\ \A i \in 1..n : hist[i].op = "new" /\ hist[i].ok
    /\ \A i \in (n + 1)..(n + k) : hist[i].op = "free"

\* C1: after N successful NewContext calls and N-1 FreeContext calls provider
\* teardown has not run; the FreeContext of the Nth Context runs it, and it
\* has then run exactly once.
C1_TeardownOnLastFree ==
    \A n \in 1..MaxCtx :
        /\ NewsThenFrees(n, n - 1) => gcry.n_term = 0
        /\ NewsThenFrees(n, n) => hist[Len(hist)].teardown /\ gcry.n_term = 1

\* C2: a NewContext performs real provider setup only while no Context is
\* live; one that runs while a Context is live performs none and increments
\* the counter.
C2_SetupOnlyWhenNoneLive ==
    \A i \in 1..Len(hist) :
        hist[i].op = "new" =>
            /\ hist[i].setup => hist[i].live = 0
            /\ hist[i].live >= 1 =>
                  ~hist[i].setup /\ hist[i].rc1 = (hist[i].rc0 + 1) % UINT_MOD

\* C3: every Context NewContext returns has the provider initialised and its
\* curve parameters resolved; a failed version check or a failed curve lookup
\* returns no Context.
C3_AllOrNothing ==
    /\ \A s \in LiveStates :
          states[s].gcrypt_init /\ states[s].curveparams # NULL
    /\ \A i \in 1..Len(hist) :
          hist[i].op = "new" /\ (hist[i].vfail \/ hist[i].cfail) => ~hist[i].ok

(***************************************************************************)
(* Claims about the key, ECIES and ECDSA calls, checked under SpecCrypto.  *)
(***************************************************************************)
\* An initialised Context with resolved curve parameters.
GoodState(state) == state.live /\ state.gcrypt_init /\ state.curveparams # NULL

\* A KeyPair whose public component encodes base * private.
Matching(k, state) ==
    /\ ~k.nil /\ k.priv # 0 /\ ~k.pub.nil
    /\ LET cp == CurveParams(state.curveparams)
       IN /\ Len(k.pub.mem) >= cp.pk_len_compact
          /\ decompress_from_string(k.pub.mem, "DF_COMPACT", cp) =
                [ok |-> TRUE, P |-> pointmul(cp.base, k.priv, cp)]

\* The bytes of a DataBuffer as its length field delimits them.
Content(d) == SubSeq(d.data, 1, d.datalen)

Encrypted == call.op = "encrypt" /\ ~call.out.rc.nil
Decrypted == call.op = "decrypt" /\ ~call.out.rc.nil /\ ~call.out.crash
SignedOk == call.op = "sign" /\ ~call.out.rc.nil

\* C4: Encrypt of a non-empty plaintext with a matching KeyPair and an
\* initialised Context succeeds, and Decrypt of that envelope with the same
\* KeyPair and Context returns a DataBuffer whose content is the plaintext.
C4_RoundTrip ==
    /\ (/\ call.op = "encrypt" /\ ~call.data.nil /\ Len(call.P) > 0
        /\ call.fault = "none" /\ GoodState(cst) /\ Matching(call.kp, cst))
          => ~call.out.rc.nil
    /\ (/\ call.op = "decrypt" /\ call.fresh /\ call.fault = "none"
        /\ GoodState(cst) /\ call.kp = call.sender /\ Matching(call.kp, cst))
          => /\ ~call.out.rc.nil
             /\ ~call.out.crash
             /\ Content(call.out.rc) = call.P

\* C5: the envelope of a successful Encrypt is pk_len_bin + len(P) + mac_len
\* bytes long, and holds, in order, the binary encoding of the ephemeral
\* point, the ciphertext of P and the first mac_len bytes of the MAC tag.
C5_EnvelopeShape ==
    Encrypted =>
        LET cp == CurveParams(cst.curveparams)
            rc == call.out.rc
            n == Len(call.P)
            Q == decompress_from_string(call.kp.pub.mem, "DF_COMPACT", cp).P
            secret == KDF(pointmul(Q, call.k, cp))
        IN /\ rc.datalen = cp.pk_len_bin + n + DEFAULT_MAC_LEN
           /\ Len(rc.data) = rc.datalen
           /\ decompress_from_string(Take(rc.data, cp.pk_len_bin), "DF_BIN", cp) =
                 [ok |-> TRUE, P |-> pointmul(cp.base, call.k, cp)]
           /\ aes256ctr_dec(Take(secret, 32),
                            SubSeq(rc.data, cp.pk_len_bin + 1, cp.pk_len_bin + n))
                 = call.P
           /\ SubSeq(rc.data, cp.pk_len_bin + n + 1, rc.datalen) =
                 Take(HMAC(SubSeq(secret, 33, 64), call.out.mac_in), DEFAULT_MAC_LEN)

C5_Witness ==
    Encrypted /\ Len(call.P) >= 2 /\ cst.curveparams = "p256"

\* C6: Sign of a non-empty message (a C string) with a matching KeyPair and
\* an initialised Context succeeds, and Verify of the same message with the
\* bytes of that signature, the same KeyPair and Context returns true.
C6_SignVerify ==
    /\ (/\ call.op = "sign" /\ ~call.data.nil /\ strlen(call.data.mem) > 0
        /\ call.fault = "none" /\ GoodState(cst) /\ Matching(call.kp, cst))
          => ~call.out.rc.nil
    /\ (/\ call.op = "verify" /\ call.of_sign /\ call.signed.fresh
        /\ call.data = Buf(call.signed.mem) /\ call.kp = call.signed.kp
        /\ call.fault = "none" /\ GoodState(cst) /\ Matching(call.kp, cst))
          => call.out.rc

C6_Witness ==
    /\ call.op = "verify" /\ call.of_sign /\ call.signed.fresh
    /\ call.data = Buf(call.signed.mem) /\ call.kp = call.signed.kp
    /\ call.fault = "none" /\ GoodState(cst) /\ Matching(call.kp, cst)
    /\ strlen(call.data.mem) >= 2
    /\ call.out.rc

\* C7: the length field of a returned DataBuffer is the number of payload
\* bytes written: pk_len_bin + len(P) + mac_len for Encrypt, envelope length
\* - pk_len_bin - mac_len for Decrypt, the compact signature length for Sign.
C7_LengthField ==
    /\ Encrypted =>
          call.out.rc.datalen =
              CurveParams(cst.curveparams).pk_len_bin + Len(call.P) + DEFAULT_MAC_LEN
    /\ (Decrypted /\ call.out.offset >= DEFAULT_MAC_LEN) =>
          call.out.rc.datalen = call.out.offset - DEFAULT_MAC_LEN
    /\ SignedOk =>
          call.out.rc.datalen = CurveParams(cst.curveparams).sig_len_compact

\* C8: Encrypt of a plaintext of length 0, Sign of an empty message and
\* Verify of an empty message or an empty signature fail and return no
\* buffer, whatever the KeyPair and the Context.
EmptyStr(p) == p.nil \/ p.mem = <<0>>

C8_EmptyRejected ==
    /\ (call.op = "encrypt" /\ Len(call.P) = 0) => call.out.rc.nil
    /\ (call.op = "sign" /\ EmptyStr(call.data)) => call.out.rc.nil
    /\ (call.op = "verify" /\ (EmptyStr(call.data) \/ EmptyStr(call.signature)))
          => ~call.out.rc

\* C9: GeneratePair with an absent or empty seed returns no KeyPair and
\* derives no private scalar.
C9_KeygenEmptySeed ==
    (call.op = "keygen" /\ EmptyStr(call.seed)) =>
        call.ret.nil /\ ~call.derived

\* C10: Decrypt of an envelope shorter than pk_len_bin returns no buffer,
\* reads nothing behind the envelope and computes no ciphertext length.
C10_ShortEnvelope ==
    (/\ call.op = "decrypt" /\ ~call.env.nil /\ GoodState(cst)
     /\ call.env.datalen < CurveParams(cst.curveparams).pk_len_bin)
        => /\ call.out.rc.nil
           /\ ~call.out.crash
           /\ ~call.out.overread
           /\ call.out.offset = NoOffset

(***************************************************************************)
(* Claims about two threads, checked under SpecThreads.                    *)
(***************************************************************************)
\* Thread t is between the test or load and the last access of one of the
\* sequences test-increment (lines 81-84) or decrement-test-teardown
\* (lines 150-158).
InSection(t) ==
    Run(t).pc \in {"L82_load", "L82_store", "L87", "L150_store", "L152", "L155"}

\* C11: the counter updates and the zero-check-then-teardown of two threads
\* exclude each other: no increment or decrement is lost, teardown does not
\* run more often than setup, and not while another Context is live.
C11_MutualExclusion ==
    /\ Cardinality({t \in Threads : InSection(t)}) <= 1
    /\ (\A t \in Threads : ~InSection(t)) =>
           refcount = (thr.incs - thr.decs) % UINT_MOD
    /\ gcry.n_term <= gcry.n_init
    /\ ~thr.early

(***************************************************************************)
(* Claims about the MAC, the secret buffer and the resources of the ECIES  *)
(* calls, checked under SpecCrypto.                                        *)
(***************************************************************************)
\* C12: in every successful Encrypt the bytes written to the MAC handle are
\* the plaintext P, and the tag in the envelope is the keyed hash of P under
\* bytes 32-63 of the secret.
C12_MacOfPlaintext ==
    Encrypted =>
        LET cp == CurveParams(cst.curveparams)
            rc == call.out.rc
            Q == decompress_from_string(call.kp.pub.mem, "DF_COMPACT", cp).P
            secret == KDF(pointmul(Q, call.k, cp))
        IN /\ call.out.mac_in = call.P
           /\ SubSeq(rc.data, rc.datalen - DEFAULT_MAC_LEN + 1, rc.datalen) =
                 Take(HMAC(SubSeq(secret, 33, 64), call.P), DEFAULT_MAC_LEN)
\* A call of ecc_encrypt or ecc_decrypt that returned to its caller.
EciesReturned == call.op \in {"encrypt", "decrypt"} /\ ~call.out.crash

\* C13: on every exit path of Encrypt and Decrypt taken after the 64-byte
\* secret buffer was allocated, the buffer holds only zero bytes when it is
\* released or the function returns.
C13_SecretZeroed ==
    (EciesReturned /\ call.out.keybuf # "none") => call.out.keybuf = "zero"

\* C14: when Encrypt or Decrypt returns, on the success path and on every
\* failure branch, every intermediate resource acquired during the call has
\* been released.
C14_NoLeak ==
    EciesReturned => call.out.held = {}
(***************************************************************************)
(* Claims about the cleanup of the ECDSA calls, checked under SpecCrypto.  *)
(***************************************************************************)
\* C15: on every path through Sign and Verify the cleanup chain releases
\* only handles the call acquired; a public-key decode failure in Verify and
\* a digest-open failure in Sign or Verify end with the failure result.
C15_CleanupOnlyAcquired ==
    /\ call.op \in {"sign", "verify"} => call.out.wild = {}
    /\ (call.op = "sign" /\ call.fault = "md_open" /\ GoodState(cst)) =>
           ~call.out.crash /\ call.out.rc.nil
    /\ (call.op = "verify" /\ call.fault = "md_open" /\ GoodState(cst)) =>
           ~call.out.crash /\ ~call.out.rc
(***************************************************************************)
(* Claims about what ecc_decrypt does with the envelope, checked under     *)
(* SpecCrypto.                                                             *)
(***************************************************************************)
\* Every tag a caller may put in place of the last mac_len bytes.
OtherTags == [1..DEFAULT_MAC_LEN -> CallerBytes]

\* The envelope e with its tag segment replaced.
WithTag(e, tag) ==
    [e EXCEPT !.data = SubSeq(e.data, 1, e.datalen - DEFAULT_MAC_LEN) \o tag]

\* The envelope passed to the last ecc_decrypt holds a point segment and a
\* tag segment.
HasTag ==
    /\ call.op = "decrypt" /\ ~call.env.nil /\ GoodState(cst)
    /\ call.env.datalen = Len(call.env.data)
    /\ call.env.datalen >=
          CurveParams(cst.curveparams).pk_len_bin + DEFAULT_MAC_LEN

\* C16: Decrypt does not look at the tag: an envelope that differs from the
\* one passed only in its last mac_len bytes gets the same outcome and the
\* same plaintext bytes from Decrypt with the same KeyPair and Context.
C16_TagIgnored ==
    HasTag =>
        \A tag \in OtherTags :
            LET other == ecc_decrypt(WithTag(call.env, tag), call.kp, cst,
                                     call.fault, <<>>, "crash")
            IN /\ other.rc = call.out.rc
               /\ other.crash = call.out.crash

C16_Witness ==
    /\ HasTag /\ Decrypted /\ call.fresh
    /\ Len(call.out.rc.data) >= 1
    /\ call.out.rc.data = call.P
    /\ \A tag \in OtherTags : WithTag(call.env, tag) # call.env
\* C19: Decrypt leaves the bytes and the length field of the caller's
\* envelope as they were, so a second Decrypt of the same envelope object
\* with the same KeyPair and Context returns the same plaintext.
C19_EnvelopeUnchanged ==
    (Decrypted /\ HasTag) =>
        /\ call.out.env = call.env
        /\ ecc_decrypt(call.out.env, call.kp, cst, call.fault, <<>>, "crash").rc
              = call.out.rc

(***************************************************************************)
(* Claims about the counter and the Options objects, checked under         *)
(* SpecLife.                                                               *)
(***************************************************************************)
\* C17: the counter equals the number of live Contexts whose
\* provider_initialized flag is set, and no FreeContext decrements it at 0.
C17_CounterIsLiveCount ==
    /\ refcount = Cardinality({s \in LiveStates : states[s].gcrypt_init})
    /\ \A i \in 1..Len(hist) :
          hist[i].op = "free" => hist[i].rc0 # 0 /\ hist[i].rc1 # UINT_MOD - 1

\* C18: no Options object is released more than once, and no live Context
\* refers to an Options object that has been released.
C18_OptionsReleasedOnce ==
    /\ \A o \in OptIds : options[o].frees <= 1
    /\ \A s \in LiveStates :
          states[s].options # 0 => options[states[s].options].alloc = "live"

====
